---- MODULE Spec2Model ----
(***************************************************************************)
(* LaTeXBuddy: the session Problem map of LatexBuddy (buddy.py), the       *)
(* whitelist file it reads and appends to, and the whitelist helpers of    *)
(* tools.py.  Strings are sequences of one-character strings so that the   *)
(* file format (keys joined by "\n", read back with splitlines) is         *)
(* computed and not assumed.  run_tools is modelled with its process pool, *)
(* one step per move of a worker, and Problem.__init__ on its own.         *)
(***************************************************************************)
EXTENDS Integers, Sequences, FiniteSets, TLC

\* errors: the dict self.errors, uid -> Problem
\* preprocessor: self.preprocessor
\* whitelist_kind, whitelist_text: what is at the path self.whitelist_file
\*   ("missing", "dir" or "file") and the characters of the file
\* promoted: the keys add_to_whitelist has written, in earlier runs (before)
\*   and in the current one (now)
\* last: the last call and its outcome
VARIABLES errors, preprocessor, whitelist_kind, whitelist_text, promoted, last

\* run: what one run_tools works on: the loaded modules, the suppression
\*   directives of the document and os.cpu_count()
\* pc: where run_tools is ("idle", "pool", "merge", "done")
\* task: per module, the state of its mapper call in the pool
\* finished: the modules in the order their mapper calls completed
\* result: the list pool.map returned
\* mi, pi: the positions of the two merge loops of run_tools
\* calls: the Problems passed to add_error by run_tools, in order
\* logs: the log entries of the run
\* clock: the reading of time.time(), counted from the start of the run
\* runs: the number of the run, and the Problems the first run ended with
VARIABLES run, pc, task, finished, result, mi, pi, calls, logs, clock, runs

\* made: the Problems constructed from recorded arguments
VARIABLES made
\* the traversal of the included files: its lists and where it is
VARIABLES walk
\* the LanguageToolLocalServer instance and the process it spawned
VARIABLES server

session == <<errors, preprocessor, whitelist_kind, whitelist_text, promoted, last>>

tools == <<run, pc, task, finished, result, mi, pi, calls, logs, clock, runs>>

vars == <<errors, preprocessor, whitelist_kind, whitelist_text, promoted, last,
          run, pc, task, finished, result, mi, pi, calls, logs, clock, runs, made,
          walk, server>>

(***************************************************************************)
(* Bounds                                                                  *)
(***************************************************************************)
\* number of distinct time stamps time.time() can return within the model
MaxUid == 3
\* write operations are offered while the whitelist has fewer lines than this
MaxLines == 2

UIDs == 1..MaxUid

(***************************************************************************)
(* Strings                                                                 *)
(***************************************************************************)
\* Python's None where a string is expected (no string has this element)
None == <<"<None>">>
\* Python's None for Problem.position
NoPosition == <<>>

NL == "\n"
CR == "\r"
\* the line boundaries of str.splitlines that the model's alphabet contains
LineBreaks == {NL, CR}

\* text-mode read (universal newlines): "\r\n" and "\r" arrive as "\n"
RECURSIVE ReadText(_)
ReadText(raw) ==
    IF raw = <<>> THEN <<>>
    ELSE IF raw[1] = CR /\ Len(raw) > 1 /\ raw[2] = NL
         THEN <<NL>> \o ReadText(SubSeq(raw, 3, Len(raw)))
    ELSE IF raw[1] = CR THEN <<NL>> \o ReadText(Tail(raw))
    ELSE <<raw[1]>> \o ReadText(Tail(raw))

\* str.splitlines(): the lines of s without their line boundaries; a final
\* line boundary does not open another line, "" has no lines
RECURSIVE SplitFrom(_, _, _)
SplitFrom(s, i, cur) ==
    IF i > Len(s) THEN (IF cur = <<>> THEN <<>> ELSE <<cur>>)
    ELSE IF s[i] = CR /\ i < Len(s) /\ s[i + 1] = NL
         THEN <<cur>> \o SplitFrom(s, i + 2, <<>>)
    ELSE IF s[i] \in LineBreaks THEN <<cur>> \o SplitFrom(s, i + 1, <<>>)
    ELSE SplitFrom(s, i + 1, Append(cur, s[i]))

SplitLines(s) == SplitFrom(s, 1, <<>>)

\* key in whitelist_entries (list membership)
InList(x, list) == \E i \in 1..Len(list) : list[i] = x

\* whitelist_file.read_text().splitlines()
WhitelistEntries(raw) == SplitLines(ReadText(raw))

(***************************************************************************)
(* Problem                                                                 *)
(***************************************************************************)
\* Problem.__generate_key: f"{checker}/{p_type}/{text}"
GenerateKey(checker, p_type, text) == checker \o <<"/">> \o p_type \o <<"/">> \o text

\* a constructor whose derived key takes in the description
ProblemInitKeyOfAll(position, text, checker, severity, p_type, description, context, suggestions, key, now) ==
    LET pt == IF p_type = None THEN <<>> ELSE p_type
    IN  [position    |-> position,
         length      |-> Len(text),
         text        |-> text,
         checker     |-> checker,
         p_type      |-> pt,
         severity    |-> severity,
         description |-> description,
         context     |-> IF context = None THEN << <<>>, <<>> >> ELSE context,
         suggestions |-> IF suggestions = None THEN <<>> ELSE suggestions,
         key         |-> IF key = None
                         THEN GenerateKey(checker, pt, text)
                                  \o (IF description = None THEN <<>> ELSE description)
                         ELSE key,
         uid         |-> now]

\* Problem.__init__ with the arguments a key could be derived from; now is
\* the value time.time() returns for the uid
ProblemInit(position, text, checker, severity, p_type, description, context, suggestions, key, now) ==
    LET pt == IF p_type = None THEN <<>> ELSE p_type
    IN  [position    |-> position,
         length      |-> Len(text),
         text        |-> text,
         checker     |-> checker,
         p_type      |-> pt,
         severity    |-> severity,
         description |-> description,
         context     |-> IF context = None THEN << <<>>, <<>> >> ELSE context,
         suggestions |-> IF suggestions = None THEN <<>> ELSE suggestions,
         key         |-> IF key = None THEN GenerateKey(checker, pt, text) ELSE key,
         uid         |-> now]

\* the same for a caller that passes no description, context or suggestions,
\* the fields the session and the whitelist never read being left out
NewProblem(position, text, checker, p_type, severity, key, now) ==
    LET p == ProblemInit(position, text, checker, severity, p_type, None, None, None,
                         key, now)
    IN  [position |-> p.position,
         length   |-> p.length,
         text     |-> p.text,
         checker  |-> p.checker,
         p_type   |-> p.p_type,
         severity |-> p.severity,
         key      |-> p.key,
         uid      |-> p.uid]

\* constructor arguments the checker modules are taken to pass
ProblemArgs ==
    { [position |-> NoPosition, text |-> <<"a", NL, "b">>, checker |-> <<"c">>,
       p_type |-> None, key |-> None],
      [position |-> <<1, 1>>, text |-> <<"a">>, checker |-> <<"c">>,
       p_type |-> <<"0">>, key |-> <<"k">>],
      [position |-> <<2, 3>>, text |-> <<"b">>, checker |-> <<"d">>,
       p_type |-> <<"0">>, key |-> <<"k">>],
      [position |-> <<1, 1>>, text |-> <<>>, checker |-> <<"c">>,
       p_type |-> <<"0">>, key |-> <<>>] }

Problems ==
    { NewProblem(a.position, a.text, a.checker, a.p_type, "WARNING", a.key, now) :
        a \in ProblemArgs, now \in UIDs }

(***************************************************************************)
(* Suppression filter                                                      *)
(***************************************************************************)
\* self.preprocessor = None after __init__
NoPreprocessor == [active |-> FALSE, checkers |-> {}, lines |-> {}]

\* Preprocessor.matches_preprocessor_filter
MatchesPreprocessorFilter(pre, problem) ==
    \/ problem.checker \in pre.checkers
    \/ problem.position # NoPosition /\ problem.position[1] \in pre.lines

(***************************************************************************)
(* The record of the last call: its name, the uid add_to_whitelist was     *)
(* given, its local added_key, the exception that left it, the error       *)
(* entries it logged, the number of session entries it removed and, for a  *)
(* check_whitelist that directly follows a check_whitelist, the number     *)
(* that one removed                                                        *)
(***************************************************************************)
Call(op, uid, added_key, exc, log) ==
    [op |-> op, uid |-> uid, added_key |-> added_key, exc |-> exc, log |-> log,
     to_add |-> <<>>, removed |-> 0, prev_removed |-> -1]

\* the number of entries by which the session shrinks from before to after
Removed(before, after) == Cardinality(DOMAIN before) - Cardinality(DOMAIN after)

\* the same for the helpers of tools.py, which are given a list of keys
ToolCall(op, to_add, exc) ==
    [op |-> op, uid |-> 0, added_key |-> None, exc |-> exc, log |-> 0,
     to_add |-> to_add, removed |-> 0, prev_removed |-> -1]

\* a file opened with a mode that empties it, and the writes to it
OpenTruncated(content, written) == written

\* the file after open("a+") and the writes to it: they go to its end
OpenAppend(content, written) == content \o written

\* the whitelist file can take one more write within the bound
CanWrite == Len(WhitelistEntries(whitelist_text)) < MaxLines

(***************************************************************************)
(* LatexBuddy                                                              *)
(***************************************************************************)
\* the entry uid put under the smallest free uid, when there is one
DelMoves(errs, uid) ==
    LET free == UIDs \ DOMAIN errs
        to == CHOOSE v \in free : \A w \in free : v <= w
    IN  IF free = {} THEN [u \in (DOMAIN errs) \ {uid} |-> errs[u]]
        ELSE [u \in ((DOMAIN errs) \ {uid}) \cup {to} |->
                  IF u = to THEN errs[uid] ELSE errs[u]]

\* the dict self.errors without the entry uid
Del(errs, uid) == [u \in (DOMAIN errs) \ {uid} |-> errs[u]]

\* the keys of the dict as a list
RECURSIVE KeyList(_)
KeyList(S) ==
    IF S = {} THEN <<>>
    ELSE LET m == CHOOSE x \in S : \A y \in S : x <= y
         IN  <<m>> \o KeyList(S \ {m})

\* an initialisation that keeps the Problems of the session
ReinitKeepsErrors ==
    /\ errors' = errors
    /\ preprocessor' = NoPreprocessor
    /\ last' = Call("init", 0, None, "none", 0)
    /\ promoted' = [before |-> promoted.before \cup promoted.now, now |-> {}]
    /\ UNCHANGED <<whitelist_kind, whitelist_text>>

\* LatexBuddy.__init__ for the next document: a fresh, empty session
Reinit ==
    /\ errors' = <<>>
    /\ preprocessor' = NoPreprocessor
    /\ last' = Call("init", 0, None, "none", 0)
    /\ promoted' = [before |-> promoted.before \cup promoted.now, now |-> {}]
    /\ UNCHANGED <<whitelist_kind, whitelist_text>>

\* LatexBuddy.add_error
AddError(problem) ==
    /\ IF ~preprocessor.active \/ MatchesPreprocessorFilter(preprocessor, problem)
       THEN errors' = [u \in (DOMAIN errors) \cup {problem.uid} |->
                          IF u = problem.uid THEN problem ELSE errors[u]]
       ELSE errors' = errors
    /\ last' = Call("add_error", 0, None, "none", 0)
    /\ UNCHANGED <<preprocessor, whitelist_kind, whitelist_text, promoted>>

\* the loop of check_whitelist leaving after its first deletion
RECURSIVE DeleteWhitelistedBreak(_, _, _)
DeleteWhitelistedBreak(errs, uids, whitelist_entries) ==
    IF uids = <<>> THEN errs
    ELSE IF InList(errs[Head(uids)].key, whitelist_entries)
         THEN Del(errs, Head(uids))
         ELSE DeleteWhitelistedBreak(errs, Tail(uids), whitelist_entries)

\* the loop of check_whitelist not looking at the last uid
RECURSIVE DeleteWhitelistedSkipLast(_, _, _)
DeleteWhitelistedSkipLast(errs, uids, whitelist_entries) ==
    IF Len(uids) <= 1 THEN errs
    ELSE IF InList(errs[Head(uids)].key, whitelist_entries)
         THEN DeleteWhitelistedSkipLast(Del(errs, Head(uids)), Tail(uids), whitelist_entries)
         ELSE DeleteWhitelistedSkipLast(errs, Tail(uids), whitelist_entries)

\* check_whitelist, the loop over the copied uids
RECURSIVE DeleteWhitelisted(_, _, _)
DeleteWhitelisted(errs, uids, whitelist_entries) ==
    IF uids = <<>> THEN errs
    ELSE IF InList(errs[Head(uids)].key, whitelist_entries)
         THEN DeleteWhitelisted(Del(errs, Head(uids)), Tail(uids), whitelist_entries)
         ELSE DeleteWhitelisted(errs, Tail(uids), whitelist_entries)

\* the record of a check_whitelist call
CheckCall(exc, removed) ==
    [Call("check_whitelist", 0, None, exc, 0) EXCEPT
        !.removed = removed,
        !.prev_removed = IF last.op = "check_whitelist" THEN last.removed ELSE -1]

\* check_whitelist without its guard: read_text meets no regular file
CheckWhitelistNoFileRaises ==
    /\ errors' = errors
    /\ last' = CheckCall(IF whitelist_kind = "dir" THEN "IsADirectoryError"
                         ELSE "FileNotFoundError", 0)

\* check_whitelist when there is no whitelist file: return
CheckWhitelistNoFile ==
    /\ errors' = errors
    /\ last' = CheckCall("none", 0)

\* LatexBuddy.check_whitelist
CheckWhitelist ==
    /\ IF ~(whitelist_kind # "missing" /\ whitelist_kind = "file")
       THEN CheckWhitelistNoFile
       ELSE /\ errors' = DeleteWhitelisted(errors, KeyList(DOMAIN errors),
                                           WhitelistEntries(whitelist_text))
            /\ last' = CheckCall("none", Removed(errors, errors'))
    /\ UNCHANGED <<preprocessor, whitelist_kind, whitelist_text, promoted>>

\* the loop of add_to_whitelist leaving after its first deletion
RECURSIVE DeleteSameKeyBreak(_, _, _)
DeleteSameKeyBreak(errs, uids, added_key) ==
    IF uids = <<>> THEN errs
    ELSE IF errs[Head(uids)].key = added_key
         THEN Del(errs, Head(uids))
         ELSE DeleteSameKeyBreak(errs, Tail(uids), added_key)

\* the loop of add_to_whitelist lowering the severity of the Problems with
\* the key and keeping them
RECURSIVE DeleteSameKeyMarks(_, _, _)
DeleteSameKeyMarks(errs, uids, added_key) ==
    IF uids = <<>> THEN errs
    ELSE IF errs[Head(uids)].key = added_key
         THEN DeleteSameKeyMarks([errs EXCEPT ![Head(uids)].severity = "NONE"],
                                 Tail(uids), added_key)
         ELSE DeleteSameKeyMarks(errs, Tail(uids), added_key)

\* the loop of add_to_whitelist comparing the checker besides the key
RECURSIVE DeleteSameKeyOfChecker(_, _, _)
DeleteSameKeyOfChecker(errs, uids, added_key) ==
    IF uids = <<>> THEN errs
    ELSE IF errs[Head(uids)].key = added_key /\ errs[Head(uids)].checker = <<"c">>
         THEN DeleteSameKeyOfChecker(Del(errs, Head(uids)), Tail(uids), added_key)
         ELSE DeleteSameKeyOfChecker(errs, Tail(uids), added_key)

\* add_to_whitelist, the loop over the remaining uids
RECURSIVE DeleteSameKey(_, _, _)
DeleteSameKey(errs, uids, added_key) ==
    IF uids = <<>> THEN errs
    ELSE IF errs[Head(uids)].key = added_key
         THEN DeleteSameKey(Del(errs, Head(uids)), Tail(uids), added_key)
         ELSE DeleteSameKey(errs, Tail(uids), added_key)

\* add_to_whitelist without the return of its guard: the file is opened
\* for appending, then self.errors[uid] fails
AddToWhitelistNotFoundOpens(uid) ==
    /\ last' = Call("add_to_whitelist", uid, None,
                    IF whitelist_kind = "dir" THEN "IsADirectoryError" ELSE "KeyError", 1)
    /\ whitelist_kind' = IF whitelist_kind = "missing" THEN "file" ELSE whitelist_kind
    /\ UNCHANGED <<errors, preprocessor, whitelist_text, promoted>>

\* add_to_whitelist without its guard: self.errors[uid] fails
AddToWhitelistNotFoundRaises(uid) ==
    /\ last' = Call("add_to_whitelist", uid, None, "KeyError", 0)
    /\ UNCHANGED <<errors, preprocessor, whitelist_kind, whitelist_text, promoted>>

\* add_to_whitelist for a uid that is not in the session: log and return
AddToWhitelistNotFound(uid) ==
    /\ last' = Call("add_to_whitelist", uid, None, "none", 1)
    /\ UNCHANGED <<errors, preprocessor, whitelist_kind, whitelist_text, promoted>>

\* LatexBuddy.add_to_whitelist
AddToWhitelist(uid) ==
    IF uid \notin DOMAIN errors THEN AddToWhitelistNotFound(uid)
    ELSE IF whitelist_kind = "dir"
    THEN \* open("a+") on a directory
         /\ last' = Call("add_to_whitelist", uid, None, "IsADirectoryError", 0)
         /\ UNCHANGED <<errors, preprocessor, whitelist_kind, whitelist_text, promoted>>
    ELSE /\ CanWrite
         /\ whitelist_kind' = "file"
         /\ whitelist_text' = OpenAppend(whitelist_text, errors[uid].key \o <<NL>>)
         /\ LET added_key == errors[uid].key
                rest == Del(errors, uid)
            IN  /\ errors' = DeleteSameKey(rest, KeyList(DOMAIN rest), added_key)
                /\ promoted' = [promoted EXCEPT !.now = @ \cup {added_key}]
                /\ last' = [Call("add_to_whitelist", uid, added_key, "none", 0)
                               EXCEPT !.removed = Removed(errors, errors'),
                                      !.to_add = <<added_key>>]
         /\ UNCHANGED preprocessor

(***************************************************************************)
(* tools.py: whitelist operations of the command line                      *)
(***************************************************************************)
\* the lists of keys given with --wl_add_keys
ConsoleKeys == { <<(<<"k">>)>>, <<(<<"x">>), (<<"x">>)>>, <<(<<"k">>), (<<"x">>)>> }

\* the word lists given with --wl_from_wordlist (texts of existing files)
WordLists == { <<"a", NL>>, <<"a", NL, NL, "a", NL>> }

\* the language given with --wl_from_wordlist
Langs == { <<"e">> }

\* what the loop of add_whitelist_console writes to the file
RECURSIVE ConsoleWrites(_, _)
ConsoleWrites(to_add, whitelist_entries) ==
    IF to_add = <<>> THEN <<>>
    ELSE IF ~InList(Head(to_add), whitelist_entries)
         THEN Head(to_add) \o <<NL>>
              \o ConsoleWrites(Tail(to_add), Append(whitelist_entries, Head(to_add)))
         ELSE ConsoleWrites(Tail(to_add), whitelist_entries)

\* tools.add_whitelist_console
AddWhitelistConsole(to_add) ==
    /\ IF whitelist_kind = "missing"
       THEN \* whitelist_file.read_text()
            /\ last' = ToolCall("add_whitelist_console", to_add, "FileNotFoundError")
            /\ UNCHANGED <<whitelist_kind, whitelist_text>>
       ELSE IF whitelist_kind = "dir"
       THEN /\ last' = ToolCall("add_whitelist_console", to_add, "IsADirectoryError")
            /\ UNCHANGED <<whitelist_kind, whitelist_text>>
       ELSE /\ CanWrite
            /\ whitelist_text' = OpenAppend(whitelist_text,
                    ConsoleWrites(to_add, WhitelistEntries(whitelist_text)))
            /\ last' = ToolCall("add_whitelist_console", to_add, "none")
            /\ UNCHANGED whitelist_kind
    /\ UNCHANGED <<errors, preprocessor, promoted>>

\* the key add_whitelist_from_file builds for a word
SpellingKey(lang, line) == lang \o <<"_", "s", "p", "e", "l", "l", "i", "n", "g", "_">> \o line

\* the keys of the non-empty lines of the word list, in order
RECURSIVE WordKeys(_, _)
WordKeys(lines, lang) ==
    IF lines = <<>> THEN <<>>
    ELSE IF Head(lines) = <<>> THEN WordKeys(Tail(lines), lang)
    ELSE <<SpellingKey(lang, Head(lines))>> \o WordKeys(Tail(lines), lang)

\* what the loop of add_whitelist_from_file writes to the file
RECURSIVE FromFileWrites(_, _, _)
FromFileWrites(lines, lang, whitelist_entries) ==
    IF lines = <<>> THEN <<>>
    ELSE IF Head(lines) = <<>> THEN FromFileWrites(Tail(lines), lang, whitelist_entries)
    ELSE LET key == SpellingKey(lang, Head(lines))
         IN  IF ~InList(key, whitelist_entries)
             THEN key \o <<NL>>
                  \o FromFileWrites(Tail(lines), lang, Append(whitelist_entries, key))
             ELSE FromFileWrites(Tail(lines), lang, whitelist_entries)

\* tools.add_whitelist_from_file
AddWhitelistFromFile(file_to_parse, lang) ==
    /\ LET lines == SplitLines(ReadText(file_to_parse))
       IN  IF whitelist_kind = "missing"
           THEN \* whitelist_file.read_text()
                /\ last' = ToolCall("add_whitelist_from_file", WordKeys(lines, lang),
                                    "FileNotFoundError")
                /\ UNCHANGED <<whitelist_kind, whitelist_text>>
           ELSE IF whitelist_kind = "dir"
           THEN /\ last' = ToolCall("add_whitelist_from_file", WordKeys(lines, lang),
                                    "IsADirectoryError")
                /\ UNCHANGED <<whitelist_kind, whitelist_text>>
           ELSE /\ CanWrite
                /\ whitelist_text' = OpenAppend(whitelist_text,
                        FromFileWrites(lines, lang, WhitelistEntries(whitelist_text)))
                /\ last' = ToolCall("add_whitelist_from_file", WordKeys(lines, lang), "none")
                /\ UNCHANGED whitelist_kind
    /\ UNCHANGED <<errors, preprocessor, promoted>>

(***************************************************************************)
(* tools.py: the traversals of the files a document includes               *)
(***************************************************************************)
\* the root file has at most this many lines with an \include or \input
\* statement, each further file one fewer than the file before it
MaxIncludes == 2
\* the entries of checked_files that get_all_paths_in_document is followed for
MaxChecked == 4
\* the entries of unchecked_files that get_all_paths_in_document is followed for
MaxQueue == 3

\* the paths files are referred to with; the traversal starts at the first
FileNames == { <<"a">>, <<"b">>, <<"c">> }
RootFile == <<"a">>

\* the paths the lines of a file refer to, in the order of the lines
Includes == UNION { [1..n -> FileNames] : n \in 0..MaxIncludes }

\* what read_text() does on a path: FileNotFoundError, another exception
\* (a directory, bytes that are no text), or the text
Files ==
    { [kind |-> "missing", includes |-> <<>>], [kind |-> "unreadable", includes |-> <<>>] }
        \cup { [kind |-> "text", includes |-> names] : names \in Includes }

\* the number of references the file is followed with
IncludesOf(name) ==
    IF name = <<"a">> THEN MaxIncludes
    ELSE IF name = <<"b">> THEN MaxIncludes - 1
    ELSE MaxIncludes - 2

FileSystems ==
    { fs \in [FileNames -> Files] :
        \A name \in FileNames : Len(fs[name].includes) <= IncludesOf(name) }

\* no traversal has been called
NoWalk == [pc |-> "none"]

\* the traversal fn before the first pass of its loop
WalkStart(fn, fs, file_path) ==
    [pc |-> "loop", fn |-> fn, fs |-> fs, unchecked_files |-> <<file_path>>,
     checked_files |-> <<>>, problems |-> <<>>, exc |-> "none"]

\* the first n entries of a list
Keep(list, n) == SubSeq(list, 1, IF Len(list) < n THEN Len(list) ELSE n)

\* get_all_paths_in_document_new, the loop over the lines: a path is queued
\* when it is neither queued nor checked
RECURSIVE QueueIncludes(_, _, _)
QueueIncludes(names, unchecked_files, checked_files) ==
    IF names = <<>> THEN unchecked_files
    ELSE LET match == Head(names)
         IN  QueueIncludes(Tail(names),
                           IF ~InList(match, unchecked_files) /\ ~InList(match, checked_files)
                           THEN Append(unchecked_files, match)
                           ELSE unchecked_files,
                           checked_files)

\* the Problem get_all_paths_in_document_new makes for a file it cannot find
IncludesProblem(unchecked_file, now) ==
    NewProblem(NoPosition, unchecked_file, <<"i", "n", "c", "l", "u", "d", "e", "s">>,
               <<"0">>, "WARNING",
               <<"i", "n", "c", "l", "u", "d", "e", "s">> \o <<"_">> \o unchecked_file, now)

\* a file that cannot be found ends the traversal
NewNotFoundEnds(w, unchecked_file, now) ==
    [w EXCEPT !.problems = Append(@, IncludesProblem(unchecked_file, now)),
              !.unchecked_files = <<>>]

\* get_all_paths_in_document_new, except FileNotFoundError: w is the
\* traversal with the file popped
NewNotFound(w, unchecked_file, now) ==
    [w EXCEPT !.problems = Append(@, IncludesProblem(unchecked_file, now))]

\* get_all_paths_in_document_new, the file read: its includes are queued and
\* it is appended to checked_files
NewRead(w, unchecked_file, names) ==
    [w EXCEPT !.unchecked_files = QueueIncludes(names, w.unchecked_files, w.checked_files),
              !.checked_files = Append(@, unchecked_file)]

\* one pass of the while loop of get_all_paths_in_document_new
NewIteration ==
    /\ walk.pc = "loop"
    /\ walk.fn = "new"
    /\ walk.unchecked_files # <<>>
    /\ LET unchecked_file == Head(walk.unchecked_files)
           popped == [walk EXCEPT !.unchecked_files = Tail(@)]
           file == walk.fs[unchecked_file]
       IN  walk' = IF file.kind = "missing" THEN NewNotFound(popped, unchecked_file, clock)
                   ELSE IF file.kind = "unreadable" THEN popped
                   ELSE NewRead(popped, unchecked_file, file.includes)
    /\ UNCHANGED <<session, tools, made, server>>

\* get_all_paths_in_document, a file read or not readable: every path its
\* lines refer to is queued and it is appended to checked_files
OldRead(w, unchecked_file, names) ==
    [w EXCEPT !.unchecked_files = Keep(@ \o names, MaxQueue),
              !.checked_files = Keep(Append(@, unchecked_file), MaxChecked)]

\* get_all_paths_in_document, except FileNotFoundError: path_line is empty at
\* this point of the pass, so path_line[unchecked_file] raises KeyError
OldNotFound(w, unchecked_file) ==
    [w EXCEPT !.pc = "raised", !.exc = "KeyError"]

\* one pass of the while loop of get_all_paths_in_document
OldIteration ==
    /\ walk.pc = "loop"
    /\ walk.fn = "old"
    /\ walk.unchecked_files # <<>>
    /\ LET unchecked_file == Head(walk.unchecked_files)
           popped == [walk EXCEPT !.unchecked_files = Tail(@)]
           file == walk.fs[unchecked_file]
       IN  walk' = IF file.kind = "missing" THEN OldNotFound(popped, unchecked_file)
                   ELSE OldRead(popped, unchecked_file, file.includes)
    /\ UNCHANGED <<session, tools, made, server>>

\* the while loop ends and the lists are returned
WalkReturns ==
    /\ walk.pc = "loop"
    /\ walk.unchecked_files = <<>>
    /\ walk' = [walk EXCEPT !.pc = "returned"]
    /\ UNCHANGED <<session, tools, made, server>>

(***************************************************************************)
(* languagetool_local_server.py                                            *)
(***************************************************************************)
\* LanguageToolLocalServer._DEFAULT_PORT
DEFAULT_PORT == 8081
\* LanguageToolLocalServer._SERVER_MAX_ATTEMPTS
SERVER_MAX_ATTEMPTS == 20
\* start_local_server is followed while fewer processes than this were spawned
MaxSpawns == 2

\* the ports find_free_port may return: the one asked for or another
Ports == {DEFAULT_PORT, DEFAULT_PORT + 1}

\* the instance after __init__: server_process is None (written 0; the
\* processes are numbered from 1), no process of it runs; pc is where the
\* instance is ("idle" or in wait_till_server_up), op, ret and exc are the
\* call that returned last, its result and the exception it raised, failed
\* tells that the recorded process is one whose server did not come up
NoServer ==
    [server_process |-> 0, port |-> 0, pc |-> "idle", attempts |-> 0, up |-> FALSE,
     requests |-> 0, spawned |-> 0, alive |-> {}, op |-> "init", ret |-> 0,
     exc |-> "none", failed |-> FALSE]

\* a start_local_server that looks at nothing and starts a server
RecordedNever(s) == FALSE

\* `if self.server_process:` a process is recorded
Recorded(s) == s.server_process # 0

\* start_local_server up to the call of wait_till_server_up; found tells
\* whether get_server_run_command finds java and the jar
StartLocalServer(port, found) ==
    /\ server.pc = "idle"
    /\ IF Recorded(server)
       THEN server' = [server EXCEPT !.op = "start", !.ret = -1, !.exc = "none"]
       ELSE IF ~found
       THEN server' = [server EXCEPT !.op = "start", !.ret = 0, !.port = port,
                                     !.exc = "FileNotFoundError"]
       ELSE /\ server.spawned < MaxSpawns
            /\ server' = [server EXCEPT !.port = port,
                                        !.server_process = server.spawned + 1,
                                        !.spawned = @ + 1,
                                        !.alive = @ \cup {server.spawned + 1},
                                        !.pc = "waiting", !.attempts = 0, !.up = FALSE,
                                        !.requests = 0, !.failed = FALSE]
    /\ UNCHANGED <<session, tools, made, walk>>

\* a loop that goes round once more
WaitLoopsOneMore(up, attempts) == ~up /\ attempts <= SERVER_MAX_ATTEMPTS

\* wait_till_server_up: `while not up and attempts < self._SERVER_MAX_ATTEMPTS`
WaitLoops(up, attempts) == ~up /\ attempts < SERVER_MAX_ATTEMPTS

\* one pass of the loop: the request succeeds or raises RequestException
Request(ok) ==
    /\ server.pc = "waiting"
    /\ WaitLoops(server.up, server.attempts)
    /\ server' = [server EXCEPT !.requests = @ + 1,
                                !.up = ok,
                                !.attempts = IF ok THEN @ ELSE @ + 1]
    /\ UNCHANGED <<session, tools, made, walk>>

\* a start_local_server that stops the process when the server is not up
WaitRaisesStops(s) ==
    [s EXCEPT !.pc = "idle", !.op = "start", !.ret = 0, !.exc = "ConnectionError",
              !.alive = {}, !.server_process = 0]

\* wait_till_server_up raises ConnectionError and start_local_server is left
\* with it
WaitRaises(s) ==
    [s EXCEPT !.pc = "idle", !.op = "start", !.ret = 0, !.exc = "ConnectionError",
              !.failed = TRUE]

\* the loop has ended: start_local_server returns the port or is left with
\* the ConnectionError
WaitEnds ==
    /\ server.pc = "waiting"
    /\ ~WaitLoops(server.up, server.attempts)
    /\ server' = IF server.up
                 THEN [server EXCEPT !.pc = "idle", !.op = "start", !.ret = server.port,
                                     !.exc = "none"]
                 ELSE WaitRaises(server)
    /\ UNCHANGED <<session, tools, made, walk>>

\* stop_local_server
StopLocalServer ==
    /\ server.pc = "idle"
    /\ server' = IF ~Recorded(server)
                 THEN [server EXCEPT !.op = "stop", !.ret = 0, !.exc = "none"]
                 ELSE [server EXCEPT !.op = "stop", !.ret = 0, !.exc = "none",
                                     !.alive = @ \ {server.server_process},
                                     !.server_process = 0, !.failed = FALSE]
    /\ UNCHANGED <<session, tools, made, walk>>

(***************************************************************************)
(* Specification                                                           *)
(***************************************************************************)
\* no module loaded and run_tools not called
NoRun == [mods |-> <<>>, doc |-> [checkers |-> {}, lines |-> {}], cpus |-> 1]

\* run_tools not called
ToolsIdle ==
    /\ pc = "idle"
    /\ task = <<>>
    /\ finished = <<>>
    /\ result = <<>>
    /\ mi = 1
    /\ pi = 1
    /\ calls = <<>>
    /\ logs = <<>>
    /\ clock = 1
    /\ runs = [n |-> 1, first |-> <<>>]

NoRunTools == run = NoRun /\ ToolsIdle

\* a whitelist file left by earlier runs: none, a directory in its place,
\* an empty file, or a file with one key
Init ==
    /\ errors = <<>>
    /\ preprocessor = NoPreprocessor
    /\ \/ whitelist_kind = "missing" /\ whitelist_text = <<>>
       \/ whitelist_kind = "dir" /\ whitelist_text = <<>>
       \/ whitelist_kind = "file" /\ whitelist_text \in {<<>>, <<"k", NL>>}
    /\ promoted = [before |-> {}, now |-> {}]
    /\ last = Call("init", 0, None, "none", 0)
    /\ NoRunTools
    /\ made = <<>>
    /\ walk = NoWalk
    /\ server = NoServer

Next ==
    \/ Reinit /\ UNCHANGED <<tools, made, walk, server>>
    \/ (\E problem \in Problems : AddError(problem)) /\ UNCHANGED <<tools, made, walk, server>>
    \/ CheckWhitelist /\ UNCHANGED <<tools, made, walk, server>>
    \/ (\E uid \in UIDs : AddToWhitelist(uid)) /\ UNCHANGED <<tools, made, walk, server>>

Spec == Init /\ [][Next]_vars

\* the whitelist file maintained from the command line (main returns after
\* perform_whitelist_operations) between runs that hold one Problem at a time
NextTools ==
    \/ Reinit /\ UNCHANGED <<tools, made, walk, server>>
    \/ (\E problem \in { p \in Problems : p.uid = 1 } : AddError(problem))
          /\ UNCHANGED <<tools, made, walk, server>>
    \/ CheckWhitelist /\ UNCHANGED <<tools, made, walk, server>>
    \/ (\E uid \in {1, 2} : AddToWhitelist(uid)) /\ UNCHANGED <<tools, made, walk, server>>
    \/ (\E to_add \in ConsoleKeys : AddWhitelistConsole(to_add))
          /\ UNCHANGED <<tools, made, walk, server>>
    \/ (\E file_to_parse \in WordLists, lang \in Langs :
          AddWhitelistFromFile(file_to_parse, lang)) /\ UNCHANGED <<tools, made, walk, server>>

SpecTools == Init /\ [][NextTools]_vars

(***************************************************************************)
(* run_tools: the modules run in a process pool, their results merged      *)
(***************************************************************************)
\* tools.find_executable not finding the executable: the entry it logs
\* before it raises
NotFoundEntry(name) == [level |-> "ERROR", text |-> "not_found", name |-> name]

\* checker modules: their display_name, the exception run_checks leaves with
\* ("" when it returns), the Problems it constructs and the log entries it
\* writes before that
ModuleC ==
    [display_name |-> <<"c">>, raises |-> "", logged |-> <<>>,
     finds |-> << [position |-> <<1, 1>>, text |-> <<"a">>, p_type |-> <<"0">>, key |-> <<"k">>],
                  [position |-> <<2, 3>>, text |-> <<"b">>, p_type |-> <<"0">>, key |-> <<"k">>] >>]

\* as LogFilter without awk: two entries for the executable, and it goes on
ModuleD ==
    [display_name |-> <<"d">>, raises |-> "",
     logged |-> <<NotFoundEntry(<<"a", "w", "k">>), NotFoundEntry(<<"a", "w", "k">>)>>,
     finds |-> << [position |-> NoPosition, text |-> <<"a", NL, "b">>, p_type |-> None,
                   key |-> None] >>]

ModuleF ==
    [display_name |-> <<"f">>, raises |-> "FileNotFoundError", logged |-> <<>>,
     finds |-> << [position |-> <<1, 1>>, text |-> <<"a">>, p_type |-> <<"0">>, key |-> <<"k">>] >>]

\* a module whose call of find_executable raises
ModuleX ==
    [display_name |-> <<"x">>, raises |-> "ExecutableNotFoundError",
     logged |-> <<NotFoundEntry(<<"e", "x", "e">>)>>, finds |-> <<>>]

\* a module whose run_checks never returns
ModuleH ==
    [display_name |-> <<"h">>, raises |-> "<never>", logged |-> <<>>, finds |-> <<>>]

\* run_checks of the module never returns nor raises
Stalls(module) == module.raises = "<never>"

\* a map that gives a stalled call up after some time
PoolMapWaitsUntilTimeout(module) == FALSE

\* pool.map has no timeout: it waits for a stalled call without end
PoolMapWaits(module) == Stalls(module)

\* the lists load_selected_modules returns
ModuleLists ==
    { <<ModuleC, ModuleD>>, <<ModuleC, ModuleF>>, <<ModuleF, ModuleD>>,
      <<ModuleF, ModuleX>>, <<ModuleD, ModuleX, ModuleC>> }

\* the directives of the document: none, checker c exempt, line 1 exempt,
\* checker d and line 1 exempt
Documents ==
    { [checkers |-> {}, lines |-> {}],
      [checkers |-> {<<"c">>}, lines |-> {}],
      [checkers |-> {}, lines |-> {1}],
      [checkers |-> {<<"d">>}, lines |-> {1}] }

\* os.cpu_count()
CpuCounts == {1, 2}

\* Preprocessor() and regex_parse_preprocessor_comments
ParsePreprocessorComments(doc) ==
    [active |-> TRUE, checkers |-> doc.checkers, lines |-> doc.lines]

\* messages.error_occurred_in_module
ErrorOccurredInModule(display_name) ==
    [text |-> "error_occurred_in_module", name |-> display_name]

\* the classes that derive from Exception among those function_call raises;
\* KeyboardInterrupt and SystemExit derive from BaseException alone
ExceptionClasses == {"FileNotFoundError", "ExecutableNotFoundError", "ValueError"}

\* the except clause of execute_no_exceptions: it names Exception
Catches(raised) == raised \in ExceptionClasses

\* the stack trace logged at the error level
ExecuteNoExceptionsTraceAtError(raised, error_message, traceback_log_level) ==
    IF raised = "" \/ ~Catches(raised) THEN <<>>
    ELSE <<[level |-> "ERROR", text |-> error_message.text, name |-> error_message.name],
           [level |-> "ERROR", text |-> "stack_trace", name |-> error_message.name]>>

\* a level that is not a valid one logs no stack trace
ExecuteNoExceptionsInvalidSilent(raised, error_message, traceback_log_level) ==
    IF raised = "" \/ ~Catches(raised) THEN <<>>
    ELSE <<[level |-> "ERROR", text |-> error_message.text, name |-> error_message.name]>>
         \o (IF traceback_log_level \in {"DEBUG", "INFO", "WARNING", "ERROR"}
             THEN <<[level |-> traceback_log_level, text |-> "stack_trace", name |-> None]>>
             ELSE <<>>)

\* tools.execute_no_exceptions: the log entries it writes when function_call
\* left with the exception raised; the level None is written "None"
ExecuteNoExceptions(raised, error_message, traceback_log_level) ==
    IF raised = "" \/ ~Catches(raised) THEN <<>>
    ELSE <<[level |-> "ERROR", text |-> error_message.text, name |-> error_message.name]>>
         \o (IF traceback_log_level = "None" THEN <<>>
             ELSE IF traceback_log_level \in {"DEBUG", "INFO", "WARNING", "ERROR"}
             THEN <<[level |-> traceback_log_level, text |-> "stack_trace", name |-> None]>>
             ELSE <<[level |-> "DEBUG", text |-> "stack_trace", name |-> None]>>)

\* tools.execute_no_exceptions: "" when it returns, else the class of the
\* exception that leaves it
ExecuteNoExceptionsLeaves(raised) ==
    IF raised = "" \/ Catches(raised) THEN "" ELSE raised

\* a mapper that returns what the module had constructed when it raised
MapperKeepsPartial(module, built) ==
    [result |-> built,
     logs |-> module.logged \o
              (IF module.raises = ""
               THEN <<[level |-> "DEBUG", text |-> "finished", name |-> module.display_name]>>
               ELSE ExecuteNoExceptions(module.raises,
                                        ErrorOccurredInModule(module.display_name), "DEBUG"))]

\* LatexBuddy.mapper from the return or raise of run_checks on: built are the
\* Problems run_checks has constructed
Mapper(module, built) ==
    [result |-> IF module.raises = "" THEN built ELSE <<>>,
     logs |-> module.logged \o
              (IF module.raises = ""
               THEN <<[level |-> "DEBUG", text |-> "finished", name |-> module.display_name]>>
               ELSE ExecuteNoExceptions(module.raises,
                                        ErrorOccurredInModule(module.display_name), "DEBUG"))]

\* the results in the order the mapper calls completed
PoolMapUnordered(tasks, completed) ==
    [i \in DOMAIN tasks |->
        IF i \in DOMAIN completed THEN tasks[completed[i]].ret ELSE <<>>]

\* the results that are not empty, in the order of the modules
PoolMapNonEmpty(tasks, completed) ==
    SelectSeq([k \in DOMAIN tasks |-> tasks[k].ret], LAMBDA ret : ret # <<>>)

\* pool.map: the results in the order of the modules
PoolMap(tasks, completed) == [k \in DOMAIN tasks |-> tasks[k].ret]

\* pool.map returning with the first completed mapper call
PoolJoinedAny(tasks) == \E k \in DOMAIN tasks : tasks[k].state = "returned"

\* pool.map returns when every mapper call has
PoolJoined(tasks) == \A k \in DOMAIN tasks : tasks[k].state = "returned"

Running(tasks) == { k \in DOMAIN tasks : tasks[k].state = "running" }

\* run_tools up to the dispatch of the modules to the pool
RunTools ==
    /\ pc = "idle"
    /\ preprocessor' = ParsePreprocessorComments(run.doc)
    /\ task' = [k \in DOMAIN run.mods |-> [state |-> "queued", built |-> <<>>, ret |-> <<>>]]
    /\ logs' = logs \o <<[level |-> "DEBUG", text |-> "using_pool", name |-> None]>>
    /\ pc' = "pool"
    /\ UNCHANGED <<errors, whitelist_kind, whitelist_text, promoted, last>>
    /\ UNCHANGED <<run, finished, result, mi, pi, calls, clock, runs, made, walk, server>>

\* a free worker process takes the next module from the queue and enters
\* mapper
Dispatch(k) ==
    /\ k \in DOMAIN task
    /\ task[k].state = "queued"
    /\ \A j \in 1..(k - 1) : task[j].state # "queued"
    /\ Cardinality(Running(task)) < run.cpus
    /\ task' = [task EXCEPT ![k].state = "running"]
    /\ logs' = logs \o <<[level |-> "DEBUG", text |-> "started",
                          name |-> run.mods[k].display_name]>>
    /\ UNCHANGED <<session, run, pc, finished, result, mi, pi, calls, clock, runs, made, walk, server>>

\* time.time() moves on
Tick ==
    /\ Running(task) # {}
    /\ clock < MaxUid
    /\ clock' = clock + 1
    /\ UNCHANGED <<session, run, pc, task, finished, result, mi, pi, calls, logs, runs, made, walk, server>>

\* run_checks of module k constructs its next Problem and puts it into the
\* session itself
RunChecksAddsError(k) ==
    /\ k \in Running(task)
    /\ Len(task[k].built) < Len(run.mods[k].finds)
    /\ LET a == run.mods[k].finds[Len(task[k].built) + 1]
           problem == NewProblem(a.position, a.text, run.mods[k].display_name, a.p_type,
                                 "WARNING", a.key, clock)
       IN  /\ task' = [task EXCEPT ![k].built = Append(@, problem)]
           /\ errors' = [u \in (DOMAIN errors) \cup {problem.uid} |->
                             IF u = problem.uid THEN problem ELSE errors[u]]
    /\ UNCHANGED <<preprocessor, whitelist_kind, whitelist_text, promoted, last>>
    /\ UNCHANGED <<run, pc, finished, result, mi, pi, calls, logs, clock, runs, made, walk, server>>

\* run_checks of module k constructs its next Problem
RunChecks(k) ==
    /\ k \in Running(task)
    /\ Len(task[k].built) < Len(run.mods[k].finds)
    /\ LET a == run.mods[k].finds[Len(task[k].built) + 1]
           problem == NewProblem(a.position, a.text, run.mods[k].display_name, a.p_type,
                                 "WARNING", a.key, clock)
       IN  task' = [task EXCEPT ![k].built = Append(@, problem)]
    /\ UNCHANGED <<session, run, pc, finished, result, mi, pi, calls, logs, clock, runs, made, walk, server>>

\* run_checks of module k returns or raises, and mapper returns
MapperReturns(k) ==
    /\ k \in Running(task)
    /\ ~PoolMapWaits(run.mods[k])
    /\ Len(task[k].built) = Len(run.mods[k].finds)
    /\ LET m == Mapper(run.mods[k], task[k].built)
       IN  /\ task' = [task EXCEPT ![k].state = "returned", ![k].ret = m.result]
           /\ logs' = logs \o m.logs
    /\ finished' = Append(finished, k)
    /\ UNCHANGED <<session, run, pc, result, mi, pi, calls, clock, runs, made, walk, server>>

\* pool.map returns
PoolMapReturns ==
    /\ pc = "pool"
    /\ PoolJoined(task)
    /\ result' = PoolMap(task, finished)
    /\ pc' = "merge"
    /\ mi' = 1
    /\ pi' = 1
    /\ UNCHANGED <<session, run, task, finished, calls, logs, clock, runs, made, walk, server>>

\* the inner loop of run_tools: self.add_error(problem)
MergeProblem ==
    /\ pc = "merge"
    /\ mi <= Len(result)
    /\ pi <= Len(result[mi])
    /\ AddError(result[mi][pi])
    /\ calls' = Append(calls, result[mi][pi])
    /\ pi' = pi + 1
    /\ UNCHANGED <<run, pc, task, finished, result, mi, logs, clock, runs, made, walk, server>>

\* the outer loop of run_tools: the next list of problems
MergeNext ==
    /\ pc = "merge"
    /\ mi <= Len(result)
    /\ pi > Len(result[mi])
    /\ mi' = mi + 1
    /\ pi' = 1
    /\ UNCHANGED <<session, run, pc, task, finished, result, calls, logs, clock, runs, made, walk, server>>

\* run_tools returns
RunToolsReturns ==
    /\ pc = "merge"
    /\ mi > Len(result)
    /\ pc' = "done"
    /\ UNCHANGED <<session, run, task, finished, result, mi, pi, calls, logs, clock, runs, made, walk, server>>

\* the multiset of (key, position, text) of a session
Tuple3(problem) == <<problem.key, problem.position, problem.text>>

Tally(errs) ==
    [t \in { Tuple3(errs[u]) : u \in DOMAIN errs } |->
        Cardinality({ u \in DOMAIN errs : Tuple3(errs[u]) = t })]

\* the same modules are run on the same document once more, in a new session
Rerun ==
    /\ pc = "done"
    /\ runs.n = 1
    /\ Reinit
    /\ runs' = [n |-> 2, first |-> Tally(errors)]
    /\ pc' = "idle"
    /\ task' = <<>>
    /\ finished' = <<>>
    /\ result' = <<>>
    /\ mi' = 1
    /\ pi' = 1
    /\ calls' = <<>>
    /\ logs' = <<>>
    /\ clock' = 1
    /\ UNCHANGED <<run, made, walk, server>>

InitRun ==
    /\ errors = <<>>
    /\ preprocessor = NoPreprocessor
    /\ whitelist_kind = "missing"
    /\ whitelist_text = <<>>
    /\ promoted = [before |-> {}, now |-> {}]
    /\ last = Call("init", 0, None, "none", 0)
    /\ run \in [mods : ModuleLists, doc : Documents, cpus : CpuCounts]
    /\ ToolsIdle
    /\ made = <<>>
    /\ walk = NoWalk
    /\ server = NoServer

NextRun ==
    \/ RunTools
    \/ \E k \in 1..Len(run.mods) : Dispatch(k)
    \/ Tick
    \/ \E k \in 1..Len(run.mods) : RunChecks(k)
    \/ \E k \in 1..Len(run.mods) : MapperReturns(k)
    \/ PoolMapReturns
    \/ MergeProblem
    \/ MergeNext
    \/ RunToolsReturns
    \/ Rerun

SpecRun == InitRun /\ [][NextRun]_vars

(***************************************************************************)
(* run_tools with a module that stalls.  The operating system lets every   *)
(* process that can take a step take one in the end.                       *)
(***************************************************************************)
StallLists ==
    { <<ModuleC, ModuleH>>, <<ModuleH, ModuleD>>, <<ModuleC, ModuleD>>, <<ModuleF, ModuleC>> }

InitStall ==
    /\ errors = <<>>
    /\ preprocessor = NoPreprocessor
    /\ whitelist_kind = "missing"
    /\ whitelist_text = <<>>
    /\ promoted = [before |-> {}, now |-> {}]
    /\ last = Call("init", 0, None, "none", 0)
    /\ run \in [mods : StallLists, doc : Documents, cpus : CpuCounts]
    /\ ToolsIdle
    /\ made = <<>>
    /\ walk = NoWalk
    /\ server = NoServer

SpecStall == InitStall /\ [][NextRun]_vars /\ WF_vars(NextRun)

(***************************************************************************)
(* cli.__execute_latexbuddy_checks: per path, the session is initialised,  *)
(* run_tools, check_whitelist and output_file are called                   *)
(***************************************************************************)
\* the body of the loop with output_file ahead of check_whitelist
CliNextCallOutputFirst(at) ==
    CASE at = "idle" -> "run_tools"
      [] at = "done" -> "output_file"
      [] at = "output" -> "init"
      [] OTHER -> "none"

\* the call the loop over the paths makes next, from where it is
CliNextCall(at) ==
    CASE at = "idle" -> "run_tools"
      [] at = "done" -> "check_whitelist"
      [] at = "checked" -> "output_file"
      [] at = "output" -> "init"
      [] OTHER -> "none"

\* LatexBuddy.output_file: the Problems of the session are rendered
OutputFile ==
    /\ last' = Call("output_file", 0, None, "none", 0)
    /\ UNCHANGED <<errors, preprocessor, whitelist_kind, whitelist_text, promoted>>

CliRunTools == CliNextCall(pc) = "run_tools" /\ RunTools

CliCheckWhitelist ==
    /\ CliNextCall(pc) = "check_whitelist"
    /\ CheckWhitelist
    /\ pc' = "checked"
    /\ UNCHANGED <<run, task, finished, result, mi, pi, calls, logs, clock, runs, made, walk, server>>

CliOutputFile ==
    /\ CliNextCall(pc) = "output_file"
    /\ OutputFile
    /\ pc' = "output"
    /\ UNCHANGED <<run, task, finished, result, mi, pi, calls, logs, clock, runs, made, walk, server>>

\* buddy.init for the next path
CliInit ==
    /\ CliNextCall(pc) = "init"
    /\ runs.n = 1
    /\ Reinit
    /\ runs' = [n |-> 2, first |-> Tally(errors)]
    /\ pc' = "idle"
    /\ task' = <<>>
    /\ finished' = <<>>
    /\ result' = <<>>
    /\ mi' = 1
    /\ pi' = 1
    /\ calls' = <<>>
    /\ logs' = <<>>
    /\ clock' = 1
    /\ UNCHANGED <<run, made, walk, server>>

\* the whitelist file is not there or has the key "k"
InitCli ==
    /\ errors = <<>>
    /\ preprocessor = NoPreprocessor
    /\ \/ whitelist_kind = "missing" /\ whitelist_text = <<>>
       \/ whitelist_kind = "file" /\ whitelist_text = <<"k", NL>>
    /\ promoted = [before |-> {}, now |-> {}]
    /\ last = Call("init", 0, None, "none", 0)
    /\ run \in [mods : ModuleLists, doc : Documents, cpus : CpuCounts]
    /\ ToolsIdle
    /\ made = <<>>
    /\ walk = NoWalk
    /\ server = NoServer

NextCli ==
    \/ CliRunTools
    \/ \E k \in 1..Len(run.mods) : Dispatch(k)
    \/ Tick
    \/ \E k \in 1..Len(run.mods) : RunChecks(k)
    \/ \E k \in 1..Len(run.mods) : MapperReturns(k)
    \/ PoolMapReturns
    \/ MergeProblem
    \/ MergeNext
    \/ RunToolsReturns
    \/ CliCheckWhitelist
    \/ CliOutputFile
    \/ CliInit

SpecCli == InitCli /\ [][NextCli]_vars

(***************************************************************************)
(* Problem constructions on their own: the key of a Problem                *)
(***************************************************************************)
\* what a finding is shown with: where it is, how severe, and the texts
\* around it
Shown ==
    { [position |-> NoPosition, severity |-> "WARNING", description |-> None,
       context |-> None, suggestions |-> None],
      [position |-> <<1, 1>>, severity |-> "ERROR", description |-> <<"x">>,
       context |-> << <<"l">>, <<"r">> >>, suggestions |-> << <<"s">> >>] }

\* arguments of Problem.__init__
InitArgs ==
    { [position |-> s.position, text |-> text, checker |-> checker,
       severity |-> s.severity, p_type |-> p_type, description |-> s.description,
       context |-> s.context, suggestions |-> s.suggestions, key |-> key] :
        s \in Shown, text \in {<<>>, <<"a">>}, checker \in {<<"c">>, <<"d">>},
        p_type \in {None, <<>>, <<"0">>}, key \in {None, <<>>, <<"k">>} }

\* a call of Problem(...), kept with its arguments next to the one before it
Construct(a) ==
    /\ made' = <<[args |-> a,
                  problem |-> ProblemInit(a.position, a.text, a.checker, a.severity,
                                          a.p_type, a.description, a.context,
                                          a.suggestions, a.key, clock)]>>
                \o (IF made = <<>> THEN <<>> ELSE <<made[1]>>)
    /\ UNCHANGED <<session, tools, walk, server>>

\* the constructed Problems are dropped
Forget ==
    /\ made # <<>>
    /\ made' = <<>>
    /\ UNCHANGED <<session, tools, walk, server>>

InitKey ==
    /\ errors = <<>>
    /\ preprocessor = NoPreprocessor
    /\ whitelist_kind = "missing"
    /\ whitelist_text = <<>>
    /\ promoted = [before |-> {}, now |-> {}]
    /\ last = Call("init", 0, None, "none", 0)
    /\ NoRunTools
    /\ made = <<>>
    /\ walk = NoWalk
    /\ server = NoServer

NextKey ==
    \/ \E a \in InitArgs : Construct(a)
    \/ Forget

SpecKey == InitKey /\ [][NextKey]_vars

(***************************************************************************)
(* ProblemSeverity and its comparisons                                     *)
(***************************************************************************)
\* the members of the enum with their values
SeverityValue == [NONE |-> 0, INFO |-> 1, WARNING |-> 2, ERROR |-> 3]

Severities == DOMAIN SeverityValue

\* ProblemSeverity.__eq__
SeverityEq(a, b) == SeverityValue[a] = SeverityValue[b]

\* a comparison by the place of the name in the alphabet
SeverityLtByName(a, b) ==
    LET place == [ERROR |-> 0, INFO |-> 1, NONE |-> 2, WARNING |-> 3]
    IN  place[a] < place[b]

\* ProblemSeverity.__lt__ for two members of the enum
SeverityLt(a, b) == SeverityValue[a] < SeverityValue[b]

\* __gt__ as functools.total_ordering derives it from __lt__ and __eq__
SeverityGt(a, b) == ~SeverityLt(a, b) /\ ~SeverityEq(a, b)

\* three severities are compared with each other, and a Problem without a
\* key is constructed with each of them
Compare(a, b, c, text) ==
    /\ made' = <<[args |-> <<a, b, c, text>>,
                  severities |-> {a, b, c},
                  cmp |-> [x \in {a, b, c}, y \in {a, b, c} |->
                              [lt |-> SeverityLt(x, y), eq |-> SeverityEq(x, y),
                               gt |-> SeverityGt(x, y)]],
                  keys |-> { NewProblem(<<1, 1>>, text, <<"c">>, None, x, None, clock).key :
                               x \in {a, b, c} }]>>
    /\ UNCHANGED <<session, tools, walk, server>>

NextSeverity ==
    \/ \E a, b, c \in Severities, text \in {<<>>, <<"a">>, <<"a", "b">>} :
          Compare(a, b, c, text)
    \/ Forget

SpecSeverity == InitKey /\ [][NextSeverity]_vars

(***************************************************************************)
(* The traversals from the root file over every file system; a pass of the *)
(* loop that can be made is made                                           *)
(***************************************************************************)
InitWalk(fn) ==
    /\ errors = <<>>
    /\ preprocessor = NoPreprocessor
    /\ whitelist_kind = "missing"
    /\ whitelist_text = <<>>
    /\ promoted = [before |-> {}, now |-> {}]
    /\ last = Call("init", 0, None, "none", 0)
    /\ NoRunTools
    /\ made = <<>>
    /\ \E fs \in FileSystems : walk = WalkStart(fn, fs, RootFile)
    /\ server = NoServer

InitWalkNew == InitWalk("new")

NextWalkNew ==
    \/ NewIteration
    \/ WalkReturns

SpecWalkNew == InitWalkNew /\ [][NextWalkNew]_vars /\ WF_vars(NextWalkNew)

InitWalkOld == InitWalk("old")

NextWalkOld ==
    \/ OldIteration
    \/ WalkReturns

SpecWalkOld == InitWalkOld /\ [][NextWalkOld]_vars /\ WF_vars(NextWalkOld)

(***************************************************************************)
(* A LanguageToolLocalServer instance its owner starts and stops; the loop *)
(* of wait_till_server_up makes its next pass or ends                      *)
(***************************************************************************)
InitServer ==
    /\ errors = <<>>
    /\ preprocessor = NoPreprocessor
    /\ whitelist_kind = "missing"
    /\ whitelist_text = <<>>
    /\ promoted = [before |-> {}, now |-> {}]
    /\ last = Call("init", 0, None, "none", 0)
    /\ NoRunTools
    /\ made = <<>>
    /\ walk = NoWalk
    /\ server = NoServer

\* the steps of wait_till_server_up
WaitStep ==
    \/ \E ok \in BOOLEAN : Request(ok)
    \/ WaitEnds

NextServer ==
    \/ \E port \in Ports, found \in BOOLEAN : StartLocalServer(port, found)
    \/ WaitStep
    \/ StopLocalServer

SpecServer == InitServer /\ [][NextServer]_vars /\ WF_vars(WaitStep)

(***************************************************************************)
(* tools.absolute_to_linecol and tools.get_line_offsets on every text of   *)
(* letters and line breaks up to a length                                  *)
(***************************************************************************)
\* the longest text absolute_to_linecol is called with
MaxText == 4

\* str.splitlines(keepends=True): the lines of s with their line boundaries
RECURSIVE SplitKeepFrom(_, _, _)
SplitKeepFrom(s, i, cur) ==
    IF i > Len(s) THEN (IF cur = <<>> THEN <<>> ELSE <<cur>>)
    ELSE IF s[i] = CR /\ i < Len(s) /\ s[i + 1] = NL
         THEN <<cur \o <<CR, NL>> >> \o SplitKeepFrom(s, i + 2, <<>>)
    ELSE IF s[i] = CR \/ s[i] = NL
         THEN <<Append(cur, s[i])>> \o SplitKeepFrom(s, i + 1, <<>>)
    ELSE SplitKeepFrom(s, i + 1, Append(cur, s[i]))

\* the loop of get_line_offsets: the offset of each line, then the offset
\* after the last
RECURSIVE OffsetsFrom(_, _)
OffsetsFrom(lines, offset) ==
    IF lines = <<>> THEN <<offset>>
    ELSE <<offset>> \o OffsetsFrom(Tail(lines), offset + Len(Head(lines)))

\* offsets from the lines without their line boundaries
GetLineOffsetsNoEnds(text) == OffsetsFrom(SplitLines(text), 0)

\* tools.get_line_offsets; the list is 0-based in the code, 1-based here
GetLineOffsets(text) == OffsetsFrom(SplitKeepFrom(text, 1, <<>>), 0)

\* the while loop of absolute_to_linecol: the line it ends with, or -1 when
\* line_offsets[line] is out of range (IndexError)
RECURSIVE LineLoop(_, _, _)
LineLoop(line_offsets, position, line) ==
    IF line + 1 > Len(line_offsets) THEN -1
    ELSE IF position >= line_offsets[line + 1]
         THEN LineLoop(line_offsets, position, line + 1)
    ELSE line

\* tools.absolute_to_linecol
AbsoluteToLinecol(text, position) ==
    LET line_offsets == GetLineOffsets(text)
        line == LineLoop(line_offsets, position, 0)
    IN  IF line = -1
        THEN [exc |-> "IndexError", line |-> 0, column |-> 0, line_offsets |-> line_offsets]
        ELSE [exc |-> "none", line |-> line,
              \* line_offsets[line - 1] with line = 0 is the last entry
              column |-> position + 1
                          - line_offsets[IF line = 0 THEN Len(line_offsets) ELSE line],
              line_offsets |-> line_offsets]

\* the texts of at most n characters
RECURSIVE Texts(_)
Texts(n) ==
    IF n = 0 THEN { <<>> }
    ELSE Texts(n - 1)
             \cup { Append(t, c) : t \in { u \in Texts(n - 1) : Len(u) = n - 1 },
                                   c \in {"a", NL, CR} }

\* one call of absolute_to_linecol
Linecol(text, position) ==
    /\ made' = <<[text |-> text, position |-> position,
                  call |-> AbsoluteToLinecol(text, position)]>>
    /\ UNCHANGED <<session, tools, walk, server>>

NextLinecol ==
    \/ \E text \in Texts(MaxText), position \in 0..MaxText :
          position <= Len(text) /\ Linecol(text, position)
    \/ Forget

SpecLinecol == InitKey /\ [][NextLinecol]_vars

(***************************************************************************)
(* tools.perform_whitelist_operations on a whitelist file the user keeps:  *)
(* its last line may lack the line break                                   *)
(***************************************************************************)
\* the lists of keys given with --wl_add_keys
CliKeys ==
    ConsoleKeys \cup { <<(<<"j">>)>>, <<(<<"j">>), (<<"k">>)>>, <<(<<"x">>), (<<"j">>)>> }

\* the languages given with --wl_from_wordlist
CliLangs == Langs \cup { <<"d">> }

InitWhitelistCli ==
    /\ errors = <<>>
    /\ preprocessor = NoPreprocessor
    /\ \/ whitelist_kind = "missing" /\ whitelist_text = <<>>
       \/ whitelist_kind = "file" /\ whitelist_text \in {<<>>, <<"k", NL>>, <<"k">>}
    /\ promoted = [before |-> {}, now |-> {}]
    /\ last = Call("init", 0, None, "none", 0)
    /\ NoRunTools
    /\ made = <<>>
    /\ walk = NoWalk
    /\ server = NoServer

\* perform_whitelist_operations: the two helpers, each under its option
NextWhitelistCli ==
    \/ (\E to_add \in CliKeys : AddWhitelistConsole(to_add))
          /\ UNCHANGED <<tools, made, walk, server>>
    \/ (\E file_to_parse \in WordLists, lang \in CliLangs :
          AddWhitelistFromFile(file_to_parse, lang)) /\ UNCHANGED <<tools, made, walk, server>>

SpecWhitelistCli == InitWhitelistCli /\ [][NextWhitelistCli]_vars

(***************************************************************************)
(* tools.execute_no_exceptions called with a function_call, an error       *)
(* message and a traceback_log_level                                       *)
(***************************************************************************)
\* what function_call does: "" is a return
Raisable == {""} \cup ExceptionClasses \cup {"KeyboardInterrupt", "SystemExit"}

\* the values of traceback_log_level; "TRACE" is not a valid one
TracebackLogLevels == {"None", "DEBUG", "INFO", "WARNING", "ERROR", "TRACE"}

\* one call of execute_no_exceptions
Execute(raised, name, traceback_log_level) ==
    /\ made' = <<[raised |-> raised, level |-> traceback_log_level,
                  message |-> ErrorOccurredInModule(name),
                  logs |-> ExecuteNoExceptions(raised, ErrorOccurredInModule(name),
                                               traceback_log_level),
                  leaves |-> ExecuteNoExceptionsLeaves(raised)]>>
    /\ UNCHANGED <<session, tools, walk, server>>

NextExecute ==
    \/ \E raised \in Raisable, name \in {<<"c">>, <<"d">>, <<"f">>, <<"x">>},
          level \in TracebackLogLevels : Execute(raised, name, level)
    \/ Forget

SpecExecute == InitKey /\ [][NextExecute]_vars

(***************************************************************************)
(* Properties                                                              *)
(***************************************************************************)
\* the lines of the whitelist file as check_whitelist reads them
Lines == WhitelistEntries(whitelist_text)

\* the uids of the session whose Problem has the key
WithKey(errs, key) == { u \in DOMAIN errs : errs[u].key = key }

\* the dict and its empty value are told apart nowhere
TypeOK ==
    /\ DOMAIN errors \subseteq UIDs
    /\ \A u \in DOMAIN errors : errors[u] \in Problems /\ errors[u].uid = u
    /\ (DOMAIN errors = {}) <=> (errors = <<>>)
    /\ whitelist_kind \in {"missing", "dir", "file"}
    /\ whitelist_kind # "file" => whitelist_text = <<>>

\* C1: after add_to_whitelist(uid) for a uid of the session has returned, no
\* Problem of the session has the key of the promoted Problem
C1_CascadeComplete ==
    (last.op = "add_to_whitelist" /\ last.added_key # None)
        => WithKey(errors, last.added_key) = {}

\* a promotion that removed the promoted Problem and another one with its
\* key and left a Problem with another key
C1_Witness ==
    /\ last.op = "add_to_whitelist"
    /\ last.added_key = <<"k">>
    /\ last.removed >= 2
    /\ errors # <<>>

\* C2: a check_whitelist that directly follows a check_whitelist leaves the
\* session as the first one left it
C2_CheckIdempotent ==
    [][(last.op = "check_whitelist" /\ last'.op = "check_whitelist")
          => errors' = errors]_vars

\* a second check_whitelist in a row, the first of which removed Problems
\* and left others
C2_Witness ==
    /\ last.op = "check_whitelist"
    /\ last.prev_removed >= 1
    /\ errors # <<>>

\* C3: with a whitelist file, check_whitelist keeps exactly the Problems whose
\* key is no line of the file, each under its uid
C3_CheckRemovesExactly ==
    [][(last'.op = "check_whitelist" /\ whitelist_kind = "file")
          => LET keep == { u \in DOMAIN errors : ~InList(errors[u].key, Lines) }
             IN  errors' = [u \in keep |-> errors[u]]]_vars

\* a check_whitelist that removed some Problems and kept others
C3_Witness ==
    /\ last.op = "check_whitelist"
    /\ whitelist_kind = "file"
    /\ last.removed >= 1
    /\ last.prev_removed = -1
    /\ errors # <<>>

\* C4: once a key was promoted, the session of a later run holds no Problem
\* with that key after check_whitelist
C4_RoundTrip ==
    last.op = "check_whitelist"
        => \A u \in DOMAIN errors : errors[u].key \notin promoted.before

\* C5: a promotion of a key that is no line of the whitelist yet adds one
\* line to the file, the promoted key
C5_OneNewLine ==
    [][(/\ last'.op = "add_to_whitelist"
        /\ last'.added_key # None
        /\ ~InList(last'.added_key, Lines))
          => Lines' = Append(Lines, last'.added_key)]_vars

\* C6: no key is on more than one line of the whitelist file
C6_NoDuplicateLines ==
    \A i, j \in 1..Len(Lines) : Lines[i] = Lines[j] => i = j

\* C7: add_to_whitelist with a uid that is not in the session leaves the
\* session and the whitelist file as they were
C7_UnknownUidNoChange ==
    [][(last'.op = "add_to_whitelist" /\ last'.uid \notin DOMAIN errors)
          => /\ errors' = errors
             /\ whitelist_kind' = whitelist_kind
             /\ whitelist_text' = whitelist_text]_vars

\* a rejected promotion on a session with Problems, no whitelist file yet
C7_Witness ==
    /\ last.op = "add_to_whitelist"
    /\ last.log = 1
    /\ last.uid \notin DOMAIN errors
    /\ errors # <<>>
    /\ whitelist_kind = "missing"

\* C8 as claimed: add_to_whitelist with a uid that is not in the session
\* leaves with a NotFoundError
C8_RaisesNotFound ==
    [][(last'.op = "add_to_whitelist" /\ last'.uid \notin DOMAIN errors)
          => last'.exc = "NotFoundError"]_vars

\* C8: add_to_whitelist with a uid that is not in the session returns without
\* an exception, as a promotion does, and logs one error entry
C8_NotFoundLogged ==
    [][(last'.op = "add_to_whitelist" /\ last'.uid \notin DOMAIN errors)
          => last'.exc = "none" /\ last'.log = 1]_vars

\* a rejected promotion that returned, the whitelist file being present
C8_Witness ==
    /\ last.op = "add_to_whitelist"
    /\ last.added_key = None
    /\ last.exc = "none"
    /\ last.log = 1
    /\ whitelist_kind = "file"

\* C9: without a regular whitelist file check_whitelist raises nothing and
\* leaves the session as it was
C9_NoFileNoChange ==
    [][(last'.op = "check_whitelist" /\ whitelist_kind # "file")
          => errors' = errors /\ last'.exc = "none"]_vars

\* a check_whitelist on three Problems without a whitelist file
C9_Witness ==
    /\ last.op = "check_whitelist"
    /\ whitelist_kind = "missing"
    /\ Cardinality(DOMAIN errors) = 3

\* C10: on a missing whitelist file the write operations (a promotion of a
\* uid of the session, add_whitelist_console, add_whitelist_from_file) raise
\* nothing and leave a file that has the keys they were to add as lines
C10_MissingFileCreated ==
    [][(/\ whitelist_kind = "missing"
        /\ \/ last'.op = "add_to_whitelist" /\ last'.uid \in DOMAIN errors
           \/ last'.op \in {"add_whitelist_console", "add_whitelist_from_file"})
          => /\ last'.exc = "none"
             /\ whitelist_kind' = "file"
             /\ \A i \in 1..Len(last'.to_add) : InList(last'.to_add[i], Lines')]_vars

\* C20: check_whitelist removes no Problem because of an empty line of the
\* whitelist file: a Problem whose key is the empty string, which only an
\* empty line can equal, stays in the session
C20_EmptyLinesIgnored ==
    [][last'.op = "check_whitelist"
          => \A u \in DOMAIN errors : errors[u].key = <<>> => u \in DOMAIN errors']_vars

\* the p_type a Problem holds for the argument p_type
TypeOf(p_type) == IF p_type = None THEN <<>> ELSE p_type

\* C19: a Problem constructed without a key has the key
\* "<checker>/<p_type>/<text>", p_type being "" when it was not given, so two
\* Problems constructed without a key from the same checker, p_type and text
\* have the same key whatever else they were constructed with; a Problem
\* constructed with a key has that key
C19_KeyDerivation ==
    /\ \A i \in DOMAIN made :
          LET a == made[i].args
              key == made[i].problem.key
          IN  IF a.key # None THEN key = a.key
              ELSE /\ Len(key) = Len(a.checker) + Len(TypeOf(a.p_type)) + Len(a.text) + 2
                   /\ SubSeq(key, 1, Len(a.checker)) = a.checker
                   /\ key[Len(a.checker) + 1] = "/"
                   /\ SubSeq(key, Len(a.checker) + 2,
                             Len(a.checker) + 1 + Len(TypeOf(a.p_type))) = TypeOf(a.p_type)
                   /\ key[Len(a.checker) + Len(TypeOf(a.p_type)) + 2] = "/"
                   /\ SubSeq(key, Len(key) - Len(a.text) + 1, Len(key)) = a.text
    /\ \A i, j \in DOMAIN made :
          (/\ made[i].args.key = None
           /\ made[j].args.key = None
           /\ made[i].args.checker = made[j].args.checker
           /\ TypeOf(made[i].args.p_type) = TypeOf(made[j].args.p_type)
           /\ made[i].args.text = made[j].args.text)
              => made[i].problem.key = made[j].problem.key

\* two Problems constructed without a key from the same checker and text, one
\* without a p_type and one with the p_type "", that differ in position,
\* severity, description, context and suggestions
C19_Witness ==
    /\ Len(made) = 2
    /\ made[1].args.key = None
    /\ made[2].args.key = None
    /\ made[1].args.checker = made[2].args.checker
    /\ made[1].args.text = made[2].args.text
    /\ made[1].args.text # <<>>
    /\ made[1].args.p_type = None
    /\ made[2].args.p_type = <<>>
    /\ made[1].args.position # made[2].args.position
    /\ made[1].args.description # made[2].args.description
    /\ made[1].problem.key = made[2].problem.key

\* the lists of a list of lists, one after the other
RECURSIVE Concat(_)
Concat(lists) == IF lists = <<>> THEN <<>> ELSE Head(lists) \o Concat(Tail(lists))

\* add_error stores the Problem it is given
Admits(problem) == ~preprocessor.active \/ MatchesPreprocessorFilter(preprocessor, problem)

\* C11: no Problem of the session is one for which the suppression filter
\* in force answers true (true meaning suppressed)
C11_SuppressedNeverStored ==
    \A u \in DOMAIN errors :
        ~(preprocessor.active /\ MatchesPreprocessorFilter(preprocessor, errors[u]))

\* C12: when no preprocessor is set or the preprocessor holds no directive,
\* the session maps p.uid to p after add_error(p)
C12_NoDirectivesAdmitsAll ==
    [][(/\ Len(calls') = Len(calls) + 1
        /\ \/ ~preprocessor.active
           \/ preprocessor.checkers = {} /\ preprocessor.lines = {})
          => LET p == calls'[Len(calls')]
             IN  p.uid \in DOMAIN errors' /\ errors'[p.uid] = p]_vars

\* the Problems run_checks constructed in the modules that did not fail
BuiltByOthers ==
    Concat([k \in DOMAIN task |->
               IF run.mods[k].raises = "" THEN task[k].built ELSE <<>>])

ErrorEntries == { i \in DOMAIN logs : logs[i].level = "ERROR" }

ErrorEntriesOf(display_name) == { i \in ErrorEntries : logs[i].name = display_name }

\* C14: for each module whose run_checks raised, the log has exactly one
\* error-level entry with the module's display name, and it has none with
\* the display name of a module that returned
C14_OneFailureEntry ==
    \A k \in DOMAIN task :
        task[k].state = "returned" =>
            Cardinality(ErrorEntriesOf(run.mods[k].display_name))
                = (IF run.mods[k].raises = "" THEN 0 ELSE 1)

\* a finished run of a module that raised and a module that returned after
\* it had logged errors of its own
C14_Witness ==
    /\ pc = "done"
    /\ \E k \in DOMAIN task :
          /\ run.mods[k].raises # ""
          /\ Cardinality(ErrorEntriesOf(run.mods[k].display_name)) = 1
    /\ \E k \in DOMAIN task : run.mods[k].raises = "" /\ task[k].ret # <<>>
    /\ Cardinality(ErrorEntries) = 3

\* what the mapper calls returned, in the order of the loaded modules
Returned == Concat([k \in DOMAIN task |-> task[k].ret])

\* C15: the Problems are passed to add_error in the order of the loaded
\* modules, those of one module in the order it returned them, whatever the
\* order the module invocations completed in
C15_MergeInModuleOrder ==
    /\ pc \in {"merge", "done"} =>
          /\ Len(calls) <= Len(Returned)
          /\ calls = SubSeq(Returned, 1, Len(calls))
    /\ pc = "done" => calls = Returned

\* a finished run whose second module completed first, both having returned
\* Problems
C15_Witness ==
    /\ pc = "done"
    /\ Len(finished) = 2
    /\ finished[1] = 2
    /\ task[1].ret # <<>>
    /\ task[2].ret # <<>>
    /\ Len(calls) = 3

\* C16: when run_tools passes a Problem to add_error, every module
\* invocation has returned or failed
C16_JoinBarrier ==
    [][Len(calls') = Len(calls) + 1
          => \A k \in DOMAIN task : task[k].state = "returned"]_vars

\* the first Problem merged after three modules ran on two workers
C16_Witness ==
    /\ pc = "merge"
    /\ Len(calls) = 1
    /\ Len(finished) = 3
    /\ run.cpus = 2

\* C17: the second run of the same modules on the same document ends with
\* a session that has the same multiset of (key, position, text) as the
\* session the first run ended with
C17_Determinism ==
    (runs.n = 2 /\ pc = "done") => Tally(errors) = runs.first

\* the Problems constructed so far in the run, by module and position
Constructed == { <<k, i>> : k \in DOMAIN task, i \in 1..MaxUid }
                   \cap { c \in (DOMAIN task) \X (1..MaxUid) : c[2] <= Len(task[c[1]].built) }

\* C18: two distinct Problems constructed in a run have different uids, and
\* at the end of run_tools the session has one entry per admitted Problem
C18_UidsUnique ==
    /\ \A c, d \in Constructed :
          c # d => task[c[1]].built[c[2]].uid # task[d[1]].built[d[2]].uid
    /\ pc = "done" =>
          Cardinality(DOMAIN errors)
              = Cardinality({ i \in DOMAIN calls : Admits(calls[i]) })

\* C21: whatever check_whitelist, add_to_whitelist, add_whitelist_console
\* and add_whitelist_from_file do, the content the whitelist file had is a
\* prefix of the content it has afterwards, a file that exists goes on
\* existing, and check_whitelist leaves the file as it is
C21_AppendOnly ==
    [][/\ Len(whitelist_text) <= Len(whitelist_text')
       /\ SubSeq(whitelist_text', 1, Len(whitelist_text)) = whitelist_text
       /\ whitelist_kind = "file" => whitelist_kind' = "file"
       /\ last'.op = "check_whitelist"
             => whitelist_text' = whitelist_text /\ whitelist_kind' = whitelist_kind]_vars

\* a helper of the command line has added a second line to the key that
\* was in the file
C21_Witness ==
    /\ last.op \in {"add_whitelist_console", "add_whitelist_from_file"}
    /\ last.exc = "none"
    /\ Len(Lines) = 2
    /\ Lines[1] = <<"k">>
    /\ Lines[2] # <<"k">>

\* C24: check_whitelist and add_to_whitelist add no entry to the session:
\* the uids stored after them were stored before
C24_OnlyShrinks ==
    [][last'.op \in {"check_whitelist", "add_to_whitelist"}
          => DOMAIN errors' \subseteq DOMAIN errors]_vars

\* a check_whitelist that removed a Problem from a session a promotion had
\* removed one from before, a third Problem staying
C24_Witness ==
    /\ last.op = "check_whitelist"
    /\ last.removed = 1
    /\ promoted.now # {}
    /\ Cardinality(DOMAIN errors) = 1

\* the uids whose entry is new or not the Problem it was
Touched(before, after) ==
    { u \in DOMAIN after : u \notin DOMAIN before \/ after[u] # before[u] }

\* C25: a Problem that stays in the session over check_whitelist or
\* add_to_whitelist is the Problem it was, field by field; add_error leaves
\* every entry as it was but the one it stores
C25_ProblemsNotMutated ==
    [][/\ last'.op \in {"check_whitelist", "add_to_whitelist"}
             => \A u \in DOMAIN errors' : u \in DOMAIN errors /\ errors'[u] = errors[u]
       /\ last'.op = "add_error"
             => /\ Cardinality(Touched(errors, errors')) <= 1
                /\ \A u \in Touched(errors, errors') :
                      errors'[u] \in Problems /\ errors'[u].uid = u]_vars

\* a promotion that removed one Problem and left two
C25_Witness ==
    /\ last.op = "add_to_whitelist"
    /\ last.removed = 1
    /\ Cardinality(DOMAIN errors) = 2

\* C29: add_to_whitelist(uid) for a uid of the session removes a Problem
\* exactly when its key is the key promoted, whatever its checker, position
\* and text; the Problems with another key stay
C29_KeyEqualityOnly ==
    [][(last'.op = "add_to_whitelist" /\ last'.added_key # None)
          => \A u \in DOMAIN errors :
                 (u \notin DOMAIN errors') <=> (errors[u].key = last'.added_key)]_vars

\* a promotion of the key "k" that removed the Problems of two checkers and
\* left the Problem with another key
C29_Witness ==
    /\ last.op = "add_to_whitelist"
    /\ last.added_key = <<"k">>
    /\ last.removed = 2
    /\ Cardinality(DOMAIN errors) = 1
    /\ \A u \in DOMAIN errors : errors[u].key # <<"k">>

\* the order the severities are to have
SeverityOrder == <<"NONE", "INFO", "WARNING", "ERROR">>

Place(severity) == CHOOSE i \in DOMAIN SeverityOrder : SeverityOrder[i] = severity

\* C28: of a < b, a == b and a > b exactly one is true for any two
\* severities; a < b is true exactly when a comes before b in NONE, INFO,
\* WARNING, ERROR, which are numbered 0 to 3; < is transitive; Problems that
\* differ in the severity only have the same key
C28_SeverityTotalOrder ==
    \A i \in DOMAIN made :
        LET S == made[i].severities
            cmp == made[i].cmp
        IN  /\ \A x, y \in S :
                  /\ Cardinality({ r \in {"lt", "eq", "gt"} : cmp[x, y][r] }) = 1
                  /\ cmp[x, y].lt <=> Place(x) < Place(y)
                  /\ cmp[x, y].eq <=> x = y
                  /\ cmp[x, y].gt <=> cmp[y, x].lt
                  /\ SeverityValue[x] = Place(x) - 1
            /\ \A x, y, z \in S : (cmp[x, y].lt /\ cmp[y, z].lt) => cmp[x, z].lt
            /\ Cardinality(made[i].keys) = 1

\* NONE, WARNING and ERROR were compared
C28_Witness ==
    /\ Len(made) = 1
    /\ made[1].severities = {"NONE", "WARNING", "ERROR"}
    /\ made[1].cmp["NONE", "ERROR"].lt
    /\ made[1].cmp["ERROR", "WARNING"].gt
    /\ made[1].keys = { <<"c", "/", "/", "a">> }

\* the log entries mapper wrote on entering run_checks of the module
StartedOf(display_name) ==
    { i \in DOMAIN logs : logs[i].text = "started" /\ logs[i].name = display_name }

\* C30: in a run, run_checks of a module has been entered once as soon as
\* the module has left the queue, and not before; the list pool.map returns
\* has one entry per module, whichever modules failed
C30_OncePerModule ==
    /\ \A k \in DOMAIN task :
          Cardinality(StartedOf(run.mods[k].display_name))
              = (IF task[k].state = "queued" THEN 0 ELSE 1)
    /\ pc \in {"merge", "done"} =>
          /\ DOMAIN result = DOMAIN run.mods
          /\ \A k \in DOMAIN run.mods : task[k].state = "returned"

\* the end of a run of three modules of which one failed
C30_Witness ==
    /\ pc = "done"
    /\ Len(result) = 3
    /\ \E k \in DOMAIN run.mods : run.mods[k].raises # ""
    /\ \A k \in DOMAIN run.mods :
          Cardinality(StartedOf(run.mods[k].display_name)) = 1

\* C23: while a module invocation is queued or running, no step changes the
\* session or the whitelist file, and the steps of the workers never do
C23_NoSharedWrites ==
    [][((\E k \in DOMAIN task : task[k].state # "returned")
           \/ (pc = "pool" /\ task' # task))
          => /\ errors' = errors
             /\ whitelist_kind' = whitelist_kind
             /\ whitelist_text' = whitelist_text]_vars

\* one module has returned Problems and another has constructed one and is
\* still running; the session is empty
C23_Witness ==
    /\ pc = "pool"
    /\ \E k \in DOMAIN task : task[k].state = "returned" /\ task[k].ret # <<>>
    /\ \E k \in DOMAIN task : task[k].state = "running" /\ task[k].built # <<>>
    /\ errors = <<>>

\* C22: until run_tools merges, the session of the path is empty, and every
\* Problem in the session is one run_tools has merged for this path
C22_SessionPerRun ==
    /\ pc \in {"idle", "pool"} => errors = <<>>
    /\ \A u \in DOMAIN errors : \E i \in DOMAIN calls : calls[i] = errors[u]

\* run_tools for the second path is about to merge its first Problem, the
\* session of the first path having ended with Problems
C22_Witness ==
    /\ runs.n = 2
    /\ pc = "merge"
    /\ calls = <<>>
    /\ Concat(result) # <<>>
    /\ DOMAIN runs.first # {}
    /\ errors = <<>>

\* C26: output_file is called after check_whitelist, and check_whitelist
\* after run_tools has returned; no Problem output_file renders has a key
\* that is a line of the whitelist file
C26_OutputAfterFilter ==
    [][/\ pc' = "checked" /\ pc # "checked" => pc = "done"
       /\ pc' = "output" /\ pc # "output" =>
             /\ pc = "checked"
             /\ last.op = "check_whitelist"
             /\ last'.op = "output_file"
             /\ \A u \in DOMAIN errors' : ~InList(errors'[u].key, Lines')]_vars

\* output_file renders a Problem after check_whitelist has removed one with
\* the key "k" of the whitelist file
C26_Witness ==
    /\ pc = "output"
    /\ last.op = "output_file"
    /\ errors # <<>>
    /\ InList(<<"k">>, Lines)
    /\ \E i \in DOMAIN calls : calls[i].key = <<"k">> /\ Admits(calls[i])

\* some module of the run stalls
SomeStalls == \E k \in DOMAIN run.mods : Stalls(run.mods[k])

\* C27: when no module stalls, a run_tools that has dispatched its modules
\* comes to the end of its merge; when a module stalls, run_tools never gets
\* to the merge and no Problem is passed to add_error
C27_Termination ==
    /\ [](( ~SomeStalls /\ pc \in {"pool", "merge"}) => <>(pc = "done"))
    /\ [](SomeStalls => (pc \in {"idle", "pool"} /\ calls = <<>> /\ errors = <<>>))

\* run_tools waits for the stalled module with the Problems of the other
\* module returned, and nothing but the stalled module is left to run
C27_Witness ==
    /\ pc = "pool"
    /\ \E k \in DOMAIN task : Stalls(run.mods[k]) /\ task[k].state = "running"
    /\ \E k \in DOMAIN task : task[k].state = "returned" /\ task[k].ret # <<>>
    /\ \A k \in DOMAIN task : task[k].state # "queued"

\* the entries of the logs that carry the error message
MessageEntries(call) ==
    SelectSeq(call.logs, LAMBDA e : e.level = "ERROR" /\ e.text = call.message.text
                                    /\ e.name = call.message.name)

\* the level the stack trace of the call is to be logged at
TraceLevel(call) ==
    IF call.level \in {"DEBUG", "INFO", "WARNING", "ERROR"} THEN call.level ELSE "DEBUG"

\* what a call whose function_call raised is to have done
HandledCall(call) ==
    /\ call.leaves = ""
    /\ Len(MessageEntries(call)) = 1
    /\ call.logs[1] = MessageEntries(call)[1]
    /\ IF call.level = "None" THEN Len(call.logs) = 1
       ELSE /\ Len(call.logs) = 2
            /\ call.logs[2].text = "stack_trace"
            /\ call.logs[2].level = TraceLevel(call)

\* C31 as stated: whatever function_call raises, execute_no_exceptions
\* returns, having logged the error message once and the stack trace at the
\* level asked for, an invalid level counting as DEBUG
C31_NothingEscapes ==
    \A i \in DOMAIN made :
        /\ made[i].leaves = ""
        /\ made[i].raised = "" => made[i].logs = <<>>
        /\ made[i].raised # "" => HandledCall(made[i])

\* C31 amended: an exception of a class deriving from Exception is caught,
\* logged once and execute_no_exceptions returns for every level, an invalid
\* level counting as DEBUG; an exception of another class (KeyboardInterrupt,
\* SystemExit) leaves execute_no_exceptions and nothing is logged
C31_ExceptionsCaught ==
    \A i \in DOMAIN made :
        /\ made[i].raised = "" => (made[i].leaves = "" /\ made[i].logs = <<>>)
        /\ made[i].raised \in ExceptionClasses => HandledCall(made[i])
        /\ made[i].raised \notin ExceptionClasses \cup {""}
              => (made[i].leaves = made[i].raised /\ made[i].logs = <<>>)

\* a ValueError caught with an invalid level, its stack trace at DEBUG
C31_Witness ==
    \E i \in DOMAIN made :
        /\ made[i].raised = "ValueError"
        /\ made[i].level = "TRACE"
        /\ made[i].leaves = ""
        /\ Len(made[i].logs) = 2
        /\ made[i].logs[2].level = "DEBUG"

\* what a call has put at the end of the whitelist file, as lines
WrittenLines(before, after) == SplitLines(SubSeq(after, Len(before) + 1, Len(after)))

\* the keys add_whitelist_from_file may build from the word lists
SpellingKeys ==
    { SpellingKey(lang, word) :
        lang \in CliLangs,
        word \in { w \in UNION { { SplitLines(ReadText(f))[i] :
                                     i \in 1..Len(SplitLines(ReadText(f))) } :
                                  f \in WordLists } : w # <<>> } }

\* C32: a call of add_whitelist_console or add_whitelist_from_file writes a
\* key only when it is no line of the file and was not written earlier in the
\* call, add_whitelist_from_file writes keys "<lang>_spelling_<word>" of
\* non-empty words only, and the same call made again leaves the file as it
\* is
C32_NoDuplicateKeys ==
    [][(last'.op \in {"add_whitelist_console", "add_whitelist_from_file"}
            /\ last'.exc = "none")
          => LET written == WrittenLines(whitelist_text, whitelist_text')
             IN  /\ \A i \in 1..Len(written) :
                        /\ InList(written[i], last'.to_add)
                        /\ ~InList(written[i], Lines)
                        /\ \A j \in 1..(i - 1) : written[j] # written[i]
                 /\ last'.op = "add_whitelist_from_file"
                        => \A i \in 1..Len(written) : written[i] \in SpellingKeys
                 /\ (last.op = last'.op /\ last.to_add = last'.to_add /\ last.exc = "none")
                        => whitelist_text' = whitelist_text]_vars

\* the traversal fn is in its loop with a file at the head of the queue that
\* cannot be found
AtMissing(fn) ==
    /\ walk.pc = "loop"
    /\ walk.fn = fn
    /\ walk.unchecked_files # <<>>
    /\ walk.fs[Head(walk.unchecked_files)].kind = "missing"

\* no entry of the list occurs twice in it
NoDuplicates(list) == \A i, j \in DOMAIN list : i # j => list[i] # list[j]

\* C33: get_all_paths_in_document_new returns for every file system, cycles
\* of includes among them, and no file is twice in the list of checked files
\* it returns
C33_NewTerminatesUnique ==
    /\ [](walk.fn = "new" => <>(walk.pc = "returned"))
    /\ []((walk.fn = "new" /\ walk.pc = "returned") => NoDuplicates(walk.checked_files))

\* C34: get_all_paths_in_document comes to an end for every file system,
\* cycles of includes among them, and a file that cannot be found adds a
\* Problem and leaves the rest of the queue to be traversed
C34_OldTerminatesPastMissing ==
    /\ [](walk.fn = "old" => <>(walk.pc \in {"returned", "raised"}))
    /\ [][AtMissing("old")
             => /\ walk'.pc = "loop"
                /\ walk'.unchecked_files = Tail(walk.unchecked_files)
                /\ Len(walk'.problems) = Len(walk.problems) + 1]_vars

\* get_all_paths_in_document_new is done with the file: it is checked, has
\* its Problem, or could not be read
Processed(g) ==
    \/ InList(g, walk.checked_files)
    \/ \E i \in DOMAIN walk.problems : walk.problems[i].text = g
    \/ walk.fs[g].kind = "unreadable"

\* C35: in get_all_paths_in_document_new a file that cannot be found adds one
\* Problem with position None and key "includes_<file>", is not put into
\* checked_files, and the loop goes on with the rest of the queue: every file
\* that is queued is processed in the end
C35_MissingFileNew ==
    /\ [][AtMissing("new")
             => LET unchecked_file == Head(walk.unchecked_files)
                    n == Len(walk.problems)
                IN  /\ walk'.pc = "loop"
                    /\ walk'.unchecked_files = Tail(walk.unchecked_files)
                    /\ walk'.checked_files = walk.checked_files
                    /\ Len(walk'.problems) = n + 1
                    /\ SubSeq(walk'.problems, 1, n) = walk.problems
                    /\ walk'.problems[n + 1].position = NoPosition
                    /\ walk'.problems[n + 1].key
                          = <<"i", "n", "c", "l", "u", "d", "e", "s", "_">> \o unchecked_file]_vars
    /\ [](walk.fn = "new"
            => \A i \in DOMAIN walk.checked_files :
                   walk.fs[walk.checked_files[i]].kind # "missing")
    /\ \A g \in FileNames :
          (walk.fn = "new" /\ InList(g, walk.unchecked_files)) ~> Processed(g)

\* the root includes a file that cannot be found and then another file: the
\* traversal has returned one Problem and both files that exist
C35_Witness ==
    /\ walk.pc = "returned"
    /\ walk.fn = "new"
    /\ walk.fs[<<"b">>].kind = "missing"
    /\ walk.fs[<<"a">>].includes = << <<"b">>, <<"c">> >>
    /\ Len(walk.problems) = 1
    /\ walk.problems[1].text = <<"b">>
    /\ walk.checked_files = << <<"a">>, <<"c">> >>

\* the step is a call of op by the owner of the idle instance, returned or
\* left with an exception
Calls(op) ==
    server.pc = "idle" /\ server'.pc = "idle" /\ server'.op = op /\ server' # server

\* C36: the instance has at most one process, the recorded one; a
\* start_local_server with a process recorded returns -1 and spawns nothing;
\* a stop_local_server with none recorded changes nothing; after a
\* stop_local_server no process is recorded or left, and a start_local_server
\* that follows spawns a process again
C36_OneServerProcess ==
    /\ [](/\ Cardinality(server.alive) <= 1
          /\ server.alive = IF server.server_process = 0 THEN {}
                             ELSE {server.server_process})
    /\ [][(Calls("start") /\ server.server_process # 0)
             => /\ server'.ret = -1
                /\ server'.spawned = server.spawned
                /\ server'.alive = server.alive
                /\ server'.server_process = server.server_process]_vars
    /\ [][(Calls("stop") /\ server.server_process = 0)
             => /\ server'.spawned = server.spawned
                /\ server'.alive = server.alive
                /\ server'.server_process = 0]_vars
    /\ [][Calls("stop") => (server'.server_process = 0 /\ server'.alive = {})]_vars
    /\ []((server.pc = "idle" /\ server.op = "stop" /\ server.spawned < MaxSpawns)
            => ENABLED (/\ StartLocalServer(DEFAULT_PORT, TRUE)
                        /\ server'.server_process = server.spawned + 1
                        /\ server'.alive = {server.spawned + 1}))

\* a second process was spawned after the first was stopped, and a
\* start_local_server while it ran returned -1
C36_Witness ==
    /\ server.op = "start"
    /\ server.ret = -1
    /\ server.spawned = 2
    /\ server.server_process = 2
    /\ server.alive = {2}

\* C37: wait_till_server_up comes to an end; it makes no request after one
\* that succeeded and returns then; it raises ConnectionError after exactly
\* SERVER_MAX_ATTEMPTS failed requests, and never makes more requests than
\* that
C37_WaitTerminates ==
    /\ [](server.requests <= SERVER_MAX_ATTEMPTS)
    /\ [](server.pc = "waiting" => <>(server.pc = "idle"))
    /\ [][(server.pc = "waiting" /\ server.up)
             => (server'.pc = "idle" /\ server'.exc = "none"
                 /\ server'.requests = server.requests)]_vars
    /\ [][(server.pc = "waiting" /\ server'.pc = "idle" /\ ~server.up)
             => /\ server'.exc = "ConnectionError"
                /\ server.attempts = SERVER_MAX_ATTEMPTS
                /\ server.requests = SERVER_MAX_ATTEMPTS]_vars
    /\ [][(server.pc = "waiting" /\ ~server.up /\ server.attempts < SERVER_MAX_ATTEMPTS)
             => (server'.pc = "waiting" /\ server'.requests = server.requests + 1)]_vars

\* the server came up at the last request that could be made
C37_Witness ==
    /\ server.op = "start"
    /\ server.pc = "idle"
    /\ server.exc = "none"
    /\ server.ret \in Ports
    /\ server.requests = SERVER_MAX_ATTEMPTS
    /\ server.attempts = SERVER_MAX_ATTEMPTS - 1

\* C38: when wait_till_server_up raises ConnectionError the spawned process
\* stays recorded and running; a start_local_server after that returns -1
\* and spawns nothing, a stop_local_server after that stops the process
C38_FailedStartKeepsProcess ==
    /\ [][(server.pc = "waiting" /\ server'.pc = "idle" /\ server'.exc = "ConnectionError")
             => /\ server'.server_process = server.server_process
                /\ server'.server_process # 0
                /\ server'.alive = {server.server_process}]_vars
    /\ [][(Calls("start") /\ server.failed)
             => (server'.ret = -1 /\ server'.spawned = server.spawned
                 /\ server'.alive = server.alive)]_vars
    /\ [][(Calls("stop") /\ server.failed)
             => (server'.server_process = 0 /\ server'.alive = {})]_vars
    /\ []((server.op = "start" /\ server.exc = "ConnectionError") => server.failed)

\* the server did not come up, and the start_local_server that followed
\* returned -1 with the process of the failed start still running
C38_Witness ==
    /\ server.failed
    /\ server.op = "start"
    /\ server.ret = -1
    /\ server.alive = {1}
    /\ server.requests = SERVER_MAX_ATTEMPTS

\* entry k of the list, counted from 0 as the code counts
At0(list, k) == list[k + 1]

\* C39: for every text and every position from 0 to below its length,
\* absolute_to_linecol returns a line and a column from 1 on with
\* line_offsets[line-1] + column - 1 = position and
\* line_offsets[line-1] <= position < line_offsets[line]; line_offsets starts
\* with 0, does not decrease and ends with the length of the text
C39_LinecolInverse ==
    \A i \in DOMAIN made :
        LET text == made[i].text
            position == made[i].position
            call == made[i].call
            line_offsets == call.line_offsets
        IN  /\ line_offsets # <<>>
            /\ At0(line_offsets, 0) = 0
            /\ At0(line_offsets, Len(line_offsets) - 1) = Len(text)
            /\ \A k \in 1..(Len(line_offsets) - 1) : line_offsets[k] <= line_offsets[k + 1]
            /\ (0 <= position /\ position < Len(text))
                  => /\ call.exc = "none"
                     /\ call.line >= 1
                     /\ call.line <= Len(line_offsets) - 1
                     /\ call.column >= 1
                     /\ At0(line_offsets, call.line - 1) + call.column - 1 = position
                     /\ At0(line_offsets, call.line - 1) <= position
                     /\ position < At0(line_offsets, call.line)

\* the first character after a line that ends with "\r\n" is at line 2,
\* column 1
C39_Witness ==
    /\ Len(made) = 1
    /\ made[1].text = <<"a", CR, NL, "a">>
    /\ made[1].position = 3
    /\ made[1].call.line = 2
    /\ made[1].call.column = 1
    /\ made[1].call.line_offsets = <<0, 3, 4>>

====
